---------------------------- MODULE Spec2Model ----------------------------
(***************************************************************************)
(* A model of the pywps-flask demonstration server (src/demo.py and        *)
(* src/processes/sayhello.py): the bounded cache recent_data_files, the    *)
(* temp_dir context manager, the three process handlers, the /datafile     *)
(* route and the choice of server backend made by main().                  *)
(*                                                                         *)
(* Strings are sequences of one-character strings.  A layer is a document  *)
(* given by its top-level elements; a JSON text is a sequence of tokens.   *)
(* uuid4() is modelled as a counter: every call returns a value no earlier *)
(* call returned.                                                          *)
(***************************************************************************)
EXTENDS Integers, Sequences, FiniteSets, TLC

(* ------------------------------ bounds -------------------------------- *)
\* longest name given to the echo handlers
MaxNameLen == 1
\* most top-level elements of a submitted layer
MaxElems == 2
\* most centroid results stored in a run that submits arbitrary layers
MaxInserts == 2
\* handler threads of the threaded backend
NumThreads == 2
\* names mkdtemp can choose from
MaxTmpNames == 2
\* features of the one large layer
BigFeatures == 11

(* -------------------------- program constants ------------------------- *)
\* deque(maxlen=20)
Capacity == 20

(* ------------------------------ state --------------------------------- *)
VARIABLES
    waitress,           \* args.waitress: the threaded backend serves
    recent_data_files,  \* the deque, oldest entry first
    deque_state,        \* the deque's mutation stamp, read by its iterators
    uuid_counter,       \* how many uuids uuid4() has returned
    fs,                 \* temporary directories: name -> files -> content
    pc,                 \* per thread: where its handler stands
    request,            \* per thread: the request being (or last) handled
    tmp,                \* per thread: the directory temp_dir() yielded
    out_bytes,          \* per thread: centroids' out_bytes
    data_file,          \* per thread: centroids' data_file
    exc,                \* per thread: the exception propagating, if any
    it,                 \* per thread: datafile's iterator over the deque
    response,           \* per thread: the response of the last request
    inserted,           \* history: every entry appended, with the number
                        \*          of features of the layer it came from
    at_start,           \* history, per thread: shared state at request start
    failed_before       \* history: some request has ended in an error

vars == <<waitress, recent_data_files, deque_state, uuid_counter, fs, pc,
          request, tmp, out_bytes, data_file, exc, it, response, inserted,
          at_start, failed_before>>

shared == <<recent_data_files, deque_state, uuid_counter, fs>>
history == <<inserted, at_start, failed_before>>

Threads == 1..NumThreads
\* run_simple serves on one thread; waitress serves on a pool of threads
Serving == IF waitress THEN Threads ELSE {1}

(* ------------------------------ values -------------------------------- *)
Chars == {"W", "!"}
Names == UNION {[1..n -> Chars] : n \in 0..MaxNameLen}

\* kinds of top-level element: a gml:featureMember holding a polygon, one
\* holding no geometry, and any other element
FeatureKinds == {"Polygon", "null"}
ElemKinds == FeatureKinds \cup {"other"}
Documents == UNION {[1..n -> ElemKinds] : n \in 0..MaxElems}
\* a layer of many features, after one element that is no feature
BigLayer ==
    [ascii |-> TRUE, well_formed |-> TRUE,
     elems |-> <<"other">> \o [i \in 1..BigFeatures |-> "Polygon"]]
Layers ==
    {[ascii |-> TRUE, well_formed |-> TRUE, elems |-> e] : e \in Documents}
    \cup {[ascii |-> FALSE, well_formed |-> TRUE, elems |-> <<"Polygon">>],
          [ascii |-> TRUE, well_formed |-> FALSE, elems |-> <<>>],
          BigLayer}
SampleLayer == [ascii |-> TRUE, well_formed |-> TRUE, elems |-> <<"Polygon">>]
WarmLayers ==
    {SampleLayer, [ascii |-> TRUE, well_formed |-> FALSE, elems |-> <<>>]}

\* no directory yet
NoTmp == 0
TmpNames == 1..MaxTmpNames
\* a uuid that uuid4() never returns
UnknownUuid == 0
NoBytes == <<>>
NoDataFile == [uuid |-> 0, bytes |-> NoBytes, mime_type |-> ""]
NoIter == [index |-> 0, counter |-> 0, state |-> 0]
NoRequest == [kind |-> "none"]
NoResponse == [status |-> 0, kind |-> "none"]
NoSnapshot == [files |-> <<>>, stamp |-> 0, uuids |-> 0, dirs |-> {}]

(* ------------------------- pure helpers -------------------------------- *)
Digit(d) ==
    CASE d = 0 -> "0" [] d = 1 -> "1" [] d = 2 -> "2" [] d = 3 -> "3"
      [] d = 4 -> "4" [] d = 5 -> "5" [] d = 6 -> "6" [] d = 7 -> "7"
      [] d = 8 -> "8" [] d = 9 -> "9"

RECURSIVE str(_)
\* str(n) of a non-negative int: its decimal digits
str(n) == IF n < 10 THEN <<Digit(n)>> ELSE str(n \div 10) \o <<Digit(n % 10)>>

\* "Hello %s!" % name
say_hello_message(name) == <<"H", "e", "l", "l", "o", " ">> \o name \o <<"!">>

\* 'Hello ' + name
SayHello_response(name) == <<"H", "e", "l", "l", "o", " ">> \o name

\* a changed feature_elements: the path selects every element
feature_elements_any(doc) == doc

\* xpath_ns(doc, '//gml:featureMember')
feature_elements(doc) == SelectSeq(doc, LAMBDA e : e \in FeatureKinds)

\* str(len(feature_elements))
feature_count_result(doc) == str(Len(feature_elements(doc)))

RECURSIVE json_dumps(_)
\* json.dumps of a feature list: the geometries between brackets, with commas
json_dumps(features) ==
    IF features = <<>> THEN <<"[", "]">>
    ELSE IF Len(features) = 1 THEN <<"[", features[1], "]">>
    ELSE <<"[", features[1], ",">> \o Tail(json_dumps(Tail(features)))

\* json.loads: the geometries of a JSON text
json_loads(text) == SelectSeq(text, LAMBDA k : k \notin {"[", "]", ","})

\* ogr2ogr -f geojson: the features of a well-formed layer, as JSON text
ogr2ogr_output(layer) == json_dumps(feature_elements(layer.elems))

\* a changed centroid: the geometry is kept as it is
centroid_unchanged(g) == g

\* mapping(shape(g).centroid)
centroid(g) == "Point"

\* lines 52-54: every feature's geometry replaced by its centroid
with_centroids(features) == [i \in 1..Len(features) |-> centroid(features[i])]

\* shape(None) raises
transform_fails(features) == \E i \in 1..Len(features) : features[i] = "null"

\* flask.url_for('datafile', uuid=..., _external=True)
url_for_datafile(uuid) == [route |-> "datafile", uuid |-> uuid]

\* a changed deque_append: a full deque drops the entry just appended
deque_append_drops_newest(d, x) ==
    IF Len(d) >= Capacity THEN d ELSE d \o <<x>>

\* a changed deque_append: no maxlen
deque_append_unbounded(d, x) == d \o <<x>>

\* deque.append with maxlen: the oldest entry is dropped when full
deque_append(d, x) ==
    IF Len(d) >= Capacity THEN Tail(d) \o <<x>> ELSE d \o <<x>>

\* the mutation stamp after an append to d: append and the drop both stamp
deque_stamp(s, d) == IF Len(d) >= Capacity THEN s + 2 ELSE s + 1

\* tmp.rmtree()
rmtree(dirs, d) == [n \in DOMAIN dirs \ {d} |-> dirs[n]]

\* the state the requests share
Snapshot == [files |-> recent_data_files, stamp |-> deque_state,
             uuids |-> uuid_counter, dirs |-> DOMAIN fs]

(* ------------------------------ Init ---------------------------------- *)
InitCommon ==
    /\ recent_data_files = <<>>
    /\ deque_state = 0
    /\ uuid_counter = 0
    /\ fs = <<>>
    /\ pc = [t \in Threads |-> "idle"]
    /\ request = [t \in Threads |-> NoRequest]
    /\ tmp = [t \in Threads |-> NoTmp]
    /\ out_bytes = [t \in Threads |-> NoBytes]
    /\ data_file = [t \in Threads |-> NoDataFile]
    /\ exc = [t \in Threads |-> ""]
    /\ it = [t \in Threads |-> NoIter]
    /\ response = [t \in Threads |-> NoResponse]
    /\ inserted = <<>>
    /\ at_start = [t \in Threads |-> NoSnapshot]
    /\ failed_before = FALSE

\* main() without -w: run_simple
Init == InitCommon /\ waitress = FALSE

\* main() with -w: waitress.serve
InitThreaded == InitCommon /\ waitress = TRUE

(* --------------------------- request start ---------------------------- *)
\* a thread takes a request: its locals are fresh, the last response is gone
Accept(t, req, where) ==
    /\ t \in Serving
    /\ pc[t] = "idle"
    /\ pc' = [pc EXCEPT ![t] = where]
    /\ request' = [request EXCEPT ![t] = req]
    /\ response' = [response EXCEPT ![t] = NoResponse]
    /\ at_start' = [at_start EXCEPT ![t] = Snapshot]
    /\ tmp' = [tmp EXCEPT ![t] = NoTmp]
    /\ out_bytes' = [out_bytes EXCEPT ![t] = NoBytes]
    /\ data_file' = [data_file EXCEPT ![t] = NoDataFile]
    /\ exc' = [exc EXCEPT ![t] = ""]
    /\ it' = [it EXCEPT ![t] = NoIter]
    /\ UNCHANGED <<waitress, shared, inserted, failed_before>>

\* a changed Finish: an unhandled exception ends the serving thread
Finish_server_dies(t, resp) ==
    /\ pc' = [pc EXCEPT ![t] = IF resp.status >= 500 THEN "dead" ELSE "idle"]
    /\ response' = [response EXCEPT ![t] = resp]
    /\ failed_before' = (failed_before \/ resp.status >= 400)

\* a request ends: the response is sent and the thread is free again
Finish(t, resp) ==
    /\ pc' = [pc EXCEPT ![t] = "idle"]
    /\ response' = [response EXCEPT ![t] = resp]
    /\ failed_before' = (failed_before \/ resp.status >= 400)

WpsResponse(outputs) == [status |-> 200, kind |-> "wps", outputs |-> outputs]
ServerError(e) == [status |-> 500, kind |-> "error", exc |-> e]
NotFound == [status |-> 404, kind |-> "abort"]
\* the service rejects a request that lacks a declared input
ExceptionReport == [status |-> 400, kind |-> "exception_report"]
\* flask.Response(data): no mimetype is given, so Flask's default is sent
FlaskResponse(body) ==
    [status |-> 200, kind |-> "datafile", body |-> body,
     mimetype |-> "text/html"]


(* ----------------------------- requests ------------------------------- *)
\* requests that never touch the cache, with layers drawn from L
PlainRequests(L) ==
    {[kind |-> "say_hello", name |-> n] : n \in Names}
    \cup {[kind |-> "SayHello", name |-> n] : n \in Names}
    \cup {[kind |-> "feature_count", layer |-> l] : l \in L}
    \cup {[kind |-> "invalid"]}

\* requests that store or fetch a result: the uuid asked for is one that
\* was handed out, or one that never was
CacheRequests(L) ==
    {[kind |-> "centroids", layer |-> l] : l \in L}
    \cup {[kind |-> "datafile", uuid |-> u] :
             u \in {UnknownUuid} \cup 1..uuid_counter}

\* the routes of create_app and the service's dispatch by process identifier
Dispatch(req) ==
    CASE req.kind = "datafile" -> "iter"
      [] req.kind = "centroids" -> "mkdtemp"
      [] OTHER -> req.kind

\* a request of R arrives; at most cap results are ever stored
Receive(t, R, cap) ==
    \E req \in R :
        /\ req.kind = "centroids" => uuid_counter < cap
        /\ Accept(t, req, Dispatch(req))

(* --------------------------- echo handlers ---------------------------- *)
\* demo.py say_hello
say_hello(t) ==
    /\ pc[t] = "say_hello"
    /\ Finish(t, WpsResponse([message |->
                                 say_hello_message(request[t].name)]))
    /\ UNCHANGED <<waitress, shared, request, tmp, out_bytes, data_file, exc,
                   it, inserted, at_start>>

\* processes/sayhello.py SayHello._handler
SayHello_handler(t) ==
    /\ pc[t] = "SayHello"
    /\ Finish(t, WpsResponse([response |->
                                 SayHello_response(request[t].name)]))
    /\ UNCHANGED <<waitress, shared, request, tmp, out_bytes, data_file, exc,
                   it, inserted, at_start>>

\* a request without its declared input never reaches a handler
validation_error(t) ==
    /\ pc[t] = "invalid"
    /\ Finish(t, ExceptionReport)
    /\ UNCHANGED <<waitress, shared, request, tmp, out_bytes, data_file, exc,
                   it, inserted, at_start>>

(* ------------------------- feature-count handler ---------------------- *)
feature_count(t) ==
    /\ pc[t] = "feature_count"
    /\ IF request[t].layer.well_formed
       THEN Finish(t, WpsResponse([count |->
                         feature_count_result(request[t].layer.elems)]))
       ELSE Finish(t, ServerError("XMLSyntaxError"))
    /\ UNCHANGED <<waitress, shared, request, tmp, out_bytes, data_file, exc,
                   it, inserted, at_start>>

(* --------------------------- centroid handler ------------------------- *)
\* an exception leaves the with block: the finally clause runs next
Raise(t, e) ==
    /\ exc' = [exc EXCEPT ![t] = e]
    /\ pc' = [pc EXCEPT ![t] = "exit"]

\* temp_dir(): tempfile.mkdtemp() makes a directory no other one is named as
c_mkdtemp(t) ==
    /\ pc[t] = "mkdtemp"
    /\ \E d \in TmpNames \ DOMAIN fs :
          /\ fs' = [n \in DOMAIN fs \cup {d} |->
                       IF n = d THEN <<>> ELSE fs[n]]
          /\ tmp' = [tmp EXCEPT ![t] = d]
    /\ pc' = [pc EXCEPT ![t] = "write"]
    /\ UNCHANGED <<waitress, recent_data_files, deque_state, uuid_counter,
                   request, out_bytes, data_file, exc, it, response, history>>

\* input_gml.write_bytes(request.inputs['layer'].read().encode('utf-8'))
c_write(t) ==
    /\ pc[t] = "write"
    /\ IF request[t].layer.ascii
       THEN /\ fs' = [fs EXCEPT ![tmp[t]] =
                         @ @@ ("input.gml" :> request[t].layer)]
            /\ pc' = [pc EXCEPT ![t] = "ogr2ogr"]
            /\ UNCHANGED exc
       ELSE /\ Raise(t, "UnicodeDecodeError")
            /\ UNCHANGED fs
    /\ UNCHANGED <<waitress, recent_data_files, deque_state, uuid_counter,
                   request, tmp, out_bytes, data_file, it, response, history>>

\* subprocess.check_call(['ogr2ogr', ...]): the tool converts a well-formed
\* layer or exits non-zero; it may fail on any input
c_ogr2ogr(t) ==
    /\ pc[t] = "ogr2ogr"
    /\ \E ok \in {fs[tmp[t]]["input.gml"].well_formed, FALSE} :
          IF ok
          THEN /\ fs' = [fs EXCEPT ![tmp[t]] = @ @@ ("input.geojson" :>
                            ogr2ogr_output(fs[tmp[t]]["input.gml"]))]
               /\ pc' = [pc EXCEPT ![t] = "transform"]
               /\ UNCHANGED exc
          ELSE /\ Raise(t, "CalledProcessError")
               /\ UNCHANGED fs
    /\ UNCHANGED <<waitress, recent_data_files, deque_state, uuid_counter,
                   request, tmp, out_bytes, data_file, it, response, history>>

\* a changed c_transform: the entry is stored before its features are
\* transformed, so a failure leaves it behind
c_transform_stores_first(t) ==
    /\ pc[t] = "transform"
    /\ LET data == json_loads(fs[tmp[t]]["input.geojson"])
       IN IF transform_fails(data)
          THEN /\ Raise(t, "AttributeError")
               /\ recent_data_files' =
                     IF Len(recent_data_files) >= Capacity
                     THEN Tail(recent_data_files) \o <<NoDataFile>>
                     ELSE recent_data_files \o <<NoDataFile>>
               /\ UNCHANGED out_bytes
          ELSE /\ out_bytes' = [out_bytes EXCEPT ![t] =
                                   json_dumps([i \in 1..Len(data) |-> "Point"])]
               /\ pc' = [pc EXCEPT ![t] = "append"]
               /\ UNCHANGED <<exc, recent_data_files>>
    /\ UNCHANGED <<waitress, deque_state, uuid_counter, fs, request, tmp,
                   data_file, it, response, history>>

\* lines 51-55: json.loads, the centroid of every feature, json.dumps
c_transform(t) ==
    /\ pc[t] = "transform"
    /\ LET data == json_loads(fs[tmp[t]]["input.geojson"])
       IN IF transform_fails(data)
          THEN /\ Raise(t, "AttributeError")
               /\ UNCHANGED out_bytes
          ELSE /\ out_bytes' = [out_bytes EXCEPT ![t] =
                                   json_dumps(with_centroids(data))]
               /\ pc' = [pc EXCEPT ![t] = "append"]
               /\ UNCHANGED exc
    /\ UNCHANGED <<waitress, shared, request, tmp, data_file, it, response,
                   history>>

\* lines 56-61: the entry, under a fresh uuid, is appended to the deque
c_append(t) ==
    /\ pc[t] = "append"
    /\ LET df == [uuid |-> uuid_counter + 1, bytes |-> out_bytes[t],
                  mime_type |-> "application/json"]
       IN /\ data_file' = [data_file EXCEPT ![t] = df]
          /\ recent_data_files' = deque_append(recent_data_files, df)
          /\ deque_state' = deque_stamp(deque_state, recent_data_files)
          /\ inserted' = Append(inserted,
                 [entry |-> df,
                  features |-> Len(feature_elements(request[t].layer.elems))])
    /\ uuid_counter' = uuid_counter + 1
    /\ pc' = [pc EXCEPT ![t] = "exit"]
    /\ UNCHANGED <<waitress, fs, request, tmp, out_bytes, exc, it, response,
                   at_start, failed_before>>

\* lines 62-64: the reference to /datafile/<uuid> that centroids returns
centroids_response(df) ==
    WpsResponse([centroids_layer |->
                    [url |-> url_for_datafile(df.uuid),
                     mime_type |-> df.mime_type]])

\* a changed c_exit: the directory is removed on the normal path only
c_exit_without_finally(t) ==
    /\ pc[t] = "exit"
    /\ IF exc[t] = ""
       THEN /\ fs' = [n \in DOMAIN fs \ {tmp[t]} |-> fs[n]]
            /\ Finish(t, WpsResponse([centroids_layer |->
                    [url |-> [route |-> "datafile", uuid |-> data_file[t].uuid],
                     mime_type |-> data_file[t].mime_type]]))
       ELSE /\ fs' = fs
            /\ Finish(t, ServerError(exc[t]))
    /\ UNCHANGED <<waitress, recent_data_files, deque_state, uuid_counter,
                   request, tmp, out_bytes, data_file, exc, it, inserted,
                   at_start>>

\* temp_dir's finally clause, then the return value or the exception
c_exit(t) ==
    /\ pc[t] = "exit"
    /\ fs' = rmtree(fs, tmp[t])
    /\ IF exc[t] = ""
       THEN Finish(t, centroids_response(data_file[t]))
       ELSE Finish(t, ServerError(exc[t]))
    /\ UNCHANGED <<waitress, recent_data_files, deque_state, uuid_counter,
                   request, tmp, out_bytes, data_file, exc, it, inserted,
                   at_start>>

(* ------------------------------ /datafile ----------------------------- *)
\* for data_file in recent_data_files: the iterator is made
d_iter(t) ==
    /\ pc[t] = "iter"
    /\ it' = [it EXCEPT ![t] = [index |-> 1,
                                counter |-> Len(recent_data_files),
                                state |-> deque_state]]
    /\ pc' = [pc EXCEPT ![t] = "next"]
    /\ UNCHANGED <<waitress, shared, request, tmp, out_bytes, data_file, exc,
                   response, history>>

\* one round of the loop: the iterator's next entry is compared; a deque
\* mutated since the iterator was made raises RuntimeError; the exhausted
\* loop runs its else clause
d_next(t) ==
    /\ pc[t] = "next"
    /\ IF deque_state # it[t].state
       THEN /\ Finish(t, ServerError("RuntimeError"))
            /\ UNCHANGED it
       ELSE IF it[t].counter = 0
       THEN /\ Finish(t, NotFound)
            /\ UNCHANGED it
       ELSE IF recent_data_files[it[t].index].uuid = request[t].uuid
       THEN /\ Finish(t, FlaskResponse(recent_data_files[it[t].index].bytes))
            /\ UNCHANGED it
       ELSE /\ it' = [it EXCEPT ![t] = [@ EXCEPT !.index = @ + 1,
                                                 !.counter = @ - 1]]
            /\ UNCHANGED <<pc, response, failed_before>>
    /\ UNCHANGED <<waitress, shared, request, tmp, out_bytes, data_file, exc,
                   inserted, at_start>>

(* --------------------------- specifications --------------------------- *)
HandlePlain(t) ==
    \/ say_hello(t)
    \/ SayHello_handler(t)
    \/ validation_error(t)
    \/ feature_count(t)

HandleCache(t) ==
    \/ c_mkdtemp(t)
    \/ c_write(t)
    \/ c_ogr2ogr(t)
    \/ c_transform(t)
    \/ c_append(t)
    \/ c_exit(t)
    \/ d_iter(t)
    \/ d_next(t)

\* any request, any layer
ReceiveAny(t) ==
    Receive(t, PlainRequests(Layers) \cup CacheRequests(Layers), MaxInserts)

\* the cache is filled with results for the sample layer, and then takes
\* results for any layer
ReceiveFill(t) ==
    Receive(t, CacheRequests(IF uuid_counter < Capacity THEN WarmLayers
                                                        ELSE Layers),
            Capacity + MaxInserts)

\* results for the sample layer are stored and fetched
ReceiveThreaded(t) == Receive(t, CacheRequests(WarmLayers), MaxInserts)

Next == \E t \in Threads : ReceiveAny(t) \/ HandlePlain(t) \/ HandleCache(t)
NextFill == \E t \in Threads : ReceiveFill(t) \/ HandleCache(t)
NextThreaded == \E t \in Threads : ReceiveThreaded(t) \/ HandleCache(t)

\* the default backend, requests of every kind with any input
Spec == Init /\ [][Next]_vars
\* the default backend, the cache filled past its capacity
SpecFill == Init /\ [][NextFill]_vars
\* the threaded backend
SpecThreaded == InitThreaded /\ [][NextThreaded]_vars

(* ------------------------------ claims -------------------------------- *)
\* thread t has answered a request of the given kind and taken no other
Finished(t, kind) ==
    /\ pc[t] = "idle"
    /\ request[t].kind = kind
    /\ response[t].kind # "none"

Min(a, b) == IF a <= b THEN a ELSE b

\* the uuids of the entries of a deque
Uuids(d) == {d[i].uuid : i \in DOMAIN d}

\* the bytes stored under uuid u in deque d
BytesOf(d, u) == d[CHOOSE i \in DOMAIN d : d[i].uuid = u].bytes

DigitChars == <<"0", "1", "2", "3", "4", "5", "6", "7", "8", "9">>

RECURSIVE DecimalValue(_)
\* the number a string of decimal digits denotes
DecimalValue(ds) ==
    IF ds = <<>> THEN 0
    ELSE 10 * DecimalValue(SubSeq(ds, 1, Len(ds) - 1))
         + (CHOOSE v \in 0..9 : DigitChars[v + 1] = ds[Len(ds)])

\* the decimal string of n, as str writes it
IsDecimalOf(ds, n) ==
    /\ Len(ds) >= 1
    /\ \A i \in DOMAIN ds : \E v \in 1..10 : DigitChars[v] = ds[i]
    /\ Len(ds) > 1 => ds[1] # "0"
    /\ DecimalValue(ds) = n

\* the greeting template of the specification
Greeting(s) == <<"H", "e", "l", "l", "o", " ">> \o s \o <<"!">>

\* C1: the cache holds exactly the last min(n, 20) entries appended, in
\* the order they were appended, n being the number of appends so far;
\* lookups, which are steps of the same runs, change nothing of it
C1_FifoLastInserted ==
    LET n == Len(inserted)
        k == Min(n, Capacity)
    IN recent_data_files = [i \in 1..k |-> inserted[n - k + i].entry]

\* two entries were dropped and a lookup has since found a kept entry
C1_Witness ==
    /\ Len(inserted) = Capacity + 2
    /\ Finished(1, "datafile")
    /\ response[1].status = 200
    /\ request[1].uuid = 3

\* C2: the cache never holds more than 20 entries
C2_CapacityBound == Len(recent_data_files) <= Capacity

\* the cache is full, more than 20 entries were appended, a request failed
C2_Witness ==
    /\ Len(recent_data_files) = Capacity
    /\ Len(inserted) > Capacity
    /\ failed_before

\* C3: a lookup of a cached identifier returns the bytes and the media type
\* stored with the entry; a lookup of any other identifier is not found
C3_RetrievalByIdentifier ==
    \A t \in Threads :
        Finished(t, "datafile") =>
            IF request[t].uuid \in Uuids(recent_data_files)
            THEN \E i \in DOMAIN recent_data_files :
                    /\ recent_data_files[i].uuid = request[t].uuid
                    /\ response[t].status = 200
                    /\ response[t].body = recent_data_files[i].bytes
                    /\ response[t].mimetype = recent_data_files[i].mime_type
            ELSE response[t].status = 404

\* C4: every temporary directory that exists belongs to a centroid call
\* still inside its with block; a call that is over has left none
C4_TempDirRemoved ==
    /\ \A d \in DOMAIN fs :
          \E t \in Threads :
              /\ pc[t] \in {"write", "ogr2ogr", "transform", "append", "exit"}
              /\ tmp[t] = d
    /\ \A t \in Threads : pc[t] = "idle" => tmp[t] \notin DOMAIN fs

\* a centroid call has ended with the conversion tool's failure
C4_Witness ==
    /\ Finished(1, "centroids")
    /\ response[1].kind = "error"
    /\ response[1].exc = "CalledProcessError"
    /\ tmp[1] # NoTmp

\* C5: a successful centroid call has appended exactly one entry, under a
\* uuid no earlier entry had, of media type application/json, and returns
\* the /datafile URL of that uuid; the stored JSON has as many features as
\* the input, all points; a lookup of a uuid handed out fewer than 20
\* appends ago returns the JSON stored under it
C5_EndToEnd ==
    \A t \in Threads :
        /\ (Finished(t, "centroids") /\ response[t].status = 200) =>
              LET n == Len(inserted)
                  new == inserted[n]
                  len == Len(recent_data_files)
                  geoms == json_loads(new.entry.bytes)
              IN /\ n = at_start[t].uuids + 1
                 /\ recent_data_files[len] = new.entry
                 /\ len = Min(Len(at_start[t].files) + 1, Capacity)
                 /\ \A i \in 1..(len - 1) :
                       recent_data_files[i].uuid \in Uuids(at_start[t].files)
                 /\ new.entry.uuid \notin
                       {inserted[i].entry.uuid : i \in 1..(n - 1)}
                 /\ new.entry.mime_type = "application/json"
                 /\ response[t].outputs.centroids_layer.url.route = "datafile"
                 /\ response[t].outputs.centroids_layer.url.uuid
                       = new.entry.uuid
                 /\ response[t].outputs.centroids_layer.mime_type
                       = "application/json"
                 /\ Len(geoms) = new.features
                 /\ \A i \in DOMAIN geoms : geoms[i] = "Point"
        /\ Finished(t, "datafile") =>
              \A i \in DOMAIN inserted :
                  inserted[i].entry.uuid = request[t].uuid =>
                      /\ Len(inserted) - i < Capacity
                            => response[t].status = 200
                      /\ response[t].status = 200 =>
                            /\ response[t].body = inserted[i].entry.bytes
                            /\ Len(json_loads(response[t].body))
                                  = inserted[i].features
                            /\ \A j \in DOMAIN json_loads(response[t].body) :
                                  json_loads(response[t].body)[j] = "Point"

\* a lookup has returned the centroids of a layer of two features, stored
\* after the cache had filled
C5_Witness ==
    /\ Finished(1, "datafile")
    /\ response[1].status = 200
    /\ request[1].uuid > Capacity
    /\ Len(json_loads(response[1].body)) = 2

\* C6: each echo handler answers name s with the text "Hello s!"
C6_Greeting ==
    \A t \in Threads :
        /\ Finished(t, "say_hello") =>
              response[t].outputs.message = Greeting(request[t].name)
        /\ Finished(t, "SayHello") =>
              response[t].outputs.response = Greeting(request[t].name)

\* C7: a request that has ended in an error has left the thread ready for
\* the next request and the shared state as it was when the request
\* arrived; requests after a failure get what they would have got: a
\* centroid request that succeeds has appended its entry, a lookup of a
\* cached identifier returns its bytes
C7_FailureIsLocal ==
    \A t \in Serving :
        /\ response[t].status >= 400 =>
              /\ pc[t] = "idle"
              /\ Snapshot = at_start[t]
              /\ ENABLED ReceiveAny(t)
        /\ (failed_before /\ Finished(t, "centroids")
              /\ exc[t] = "") =>
              /\ response[t].status = 200
              /\ recent_data_files[Len(recent_data_files)] = data_file[t]
              /\ Len(recent_data_files) = Len(at_start[t].files) + 1
        /\ (failed_before /\ Finished(t, "datafile")
              /\ request[t].uuid \in Uuids(at_start[t].files)) =>
              /\ response[t].status = 200
              /\ response[t].body
                    = BytesOf(at_start[t].files, request[t].uuid)

\* after a failed request, a centroid request has stored its result
C7_Witness ==
    /\ failed_before
    /\ Finished(1, "centroids")
    /\ response[1].status = 200
    /\ Len(recent_data_files) = 2

\* C8: feature_count answers a well-formed document with the decimal string
\* of its number of gml:featureMember elements, fails on a document that
\* is not well-formed, and leaves the cache as it was
C8_FeatureCount ==
    \A t \in Threads :
        Finished(t, "feature_count") =>
            LET doc == request[t].layer
                n == Cardinality({i \in DOMAIN doc.elems :
                                     doc.elems[i] \in {"Polygon", "null"}})
            IN /\ doc.well_formed =>
                     /\ response[t].status = 200
                     /\ IsDecimalOf(response[t].outputs.count, n)
               /\ ~doc.well_formed =>
                     /\ response[t].status >= 400
                     /\ response[t].kind = "error"
               /\ Snapshot = at_start[t]

\* the large layer has been counted, with results in the cache
C8_Witness ==
    /\ Finished(1, "feature_count")
    /\ request[1].layer = BigLayer
    /\ response[1].status = 200
    /\ Len(response[1].outputs.count) = 2
    /\ recent_data_files # <<>>

\* C9: a centroid call that fails returns an error and no reference, and
\* the cache is what it was when the call began
C9_FailedCallKeepsCache ==
    \A t \in Threads :
        (Finished(t, "centroids") /\ exc[t] # "") =>
            /\ response[t].status >= 400
            /\ response[t].kind = "error"
            /\ recent_data_files = at_start[t].files
            /\ deque_state = at_start[t].stamp
            /\ Len(inserted) = at_start[t].uuids

\* with the cache full, a centroid call has failed on a feature without
\* geometry
C9_Witness ==
    /\ Finished(1, "centroids")
    /\ exc[1] = "AttributeError"
    /\ Len(recent_data_files) = Capacity
    /\ Len(inserted) > Capacity

\* C10: under the threaded backend a lookup ends with the bytes of an entry
\* of the uuid asked for, or with not-found; and with those bytes when the
\* uuid was in the cache from the start of the lookup to its end
C10_LookupOutcome ==
    \A t \in Threads :
        Finished(t, "datafile") =>
            /\ \/ response[t].status = 404
               \/ /\ response[t].status = 200
                  /\ \E i \in DOMAIN inserted :
                        /\ inserted[i].entry.uuid = request[t].uuid
                        /\ inserted[i].entry.bytes = response[t].body
            /\ (/\ request[t].uuid \in Uuids(at_start[t].files)
                /\ request[t].uuid \in Uuids(recent_data_files))
                  => response[t].status = 200

=============================================================================
